---- MODULE Spec2Model ----
(***************************************************************************)
(* A model of snapcat: the directory walker with its exclusion filter, the *)
(* content reader (size ceiling, binary detection, permissive decoding),   *)
(* the tree renderer and the scan engine in its eager (sequential and      *)
(* data-parallel) and streaming modes.                                     *)
(*                                                                         *)
(* Bytes of a file are held as  head \o <pad copies of 'A'> \o tail  so    *)
(* that files longer than the 4096-byte probe window stay small values.    *)
(* Paths are sequences of components, a component is a sequence of         *)
(* character codes.                                                        *)
(***************************************************************************)
EXTENDS Integers, Sequences, FiniteSets, TLC

VARIABLES
    rfile,      \* content reader: the file handed to read_file_content
    rdet,       \* content reader: the binary-detection strategy
    rlimit,     \* content reader: the size ceiling (NoLimit when None)
    rres,       \* content reader: the returned Result
    rops,       \* content reader: the filesystem calls made, in order
    rpc,        \* content reader: "call" before, "ret" after the call
    troot,      \* tree renderer: the root path
    tentries,   \* tree renderer: the entry list handed to it
    ttree,      \* tree renderer: the lines pushed, header first
    tstring,    \* tree renderer: the returned string, lines.join("\n")
    tpc,        \* tree renderer: "call" before, "ret" after the call
    fs,         \* the directory tree on disk; no scan changes it
    opt,        \* the SnapcatOptions of the scans
    mode,       \* which entry point is exercised: "seq", "par" or "stream"
    outcomes,   \* the Results returned by the eager scans so far
    phase,      \* parallel scan: "idle", or "tasks" while the workers run
    ptree,      \* parallel scan: the tree rendered before the fan-out
    ppaths,     \* parallel scan: the regular files, in discovery order
    task,       \* parallel scan: per index "pending", "running" or "done"
    slots,      \* parallel scan: the collected result per position
    saved,      \* parallel scan: the error kept by the collect
    sstate,     \* stream: "none", "open", "failed" (new returned Err), "done"
    cursor,     \* stream: how many walker items path_iter has consumed
    yielded,    \* stream: the items returned by next so far
    reads       \* stream: the paths whose content was read, in order

readVars == <<rfile, rdet, rlimit, rres, rops, rpc>>
treeVars == <<troot, tentries, ttree, tstring, tpc>>
parVars == <<phase, ptree, ppaths, task, slots, saved>>
streamVars == <<sstate, cursor, yielded, reads>>
engineVars == <<fs, opt, mode, outcomes, parVars, streamVars>>
vars == <<readVars, treeVars, engineVars>>

----------------------------------------------------------------------------
(* Generic helpers *)

Min(a, b) == IF a < b THEN a ELSE b
Max(a, b) == IF a < b THEN b ELSE a
Range(s) == {s[i] : i \in 1..Len(s)}
SeqsUpTo(S, n) == UNION {[1..k -> S] : k \in 0..n}

----------------------------------------------------------------------------
(* Bytes, characters and file content *)

NUL == 0            \* the zero byte
ASCII_A == 65       \* 'A', the padding byte
LEAD == 195         \* 0xC3, first byte of a two-byte UTF-8 sequence
CONT == 169         \* 0xA9, a continuation byte
BAD == 255          \* 0xFF, never valid in UTF-8
E_ACUTE == 233      \* U+00E9, the character encoded by 0xC3 0xA9
REPLACEMENT == 65533 \* U+FFFD

Bytes == {NUL, ASCII_A, LEAD, CONT, BAD}

\* The probe window of read_file_content: take(4096).
PROBE == 4096

NoLimit == -1

Size(f) == Len(f.head) + f.pad + Len(f.tail)
HasByte(c, b) == b \in Range(c.head) \/ (c.pad > 0 /\ b = ASCII_A) \/ b \in Range(c.tail)

\* Canonical form of a chunk: with no padding all bytes sit in head.
Canon(c) ==
    IF c.pad = 0 THEN [head |-> c.head \o c.tail, pad |-> 0, tail |-> <<>>] ELSE c

\* The first n bytes of a byte string (Read::take(n) then read_to_end).
Take(f, n) ==
    LET h == Min(n, Len(f.head))
        p == Min(f.pad, Max(0, n - Len(f.head)))
        t == Min(Len(f.tail), Max(0, n - Len(f.head) - f.pad))
    IN  [head |-> SubSeq(f.head, 1, h), pad |-> p, tail |-> SubSeq(f.tail, 1, t)]

\* What the reader has left after n bytes were consumed.
Drop(f, n) ==
    LET h == Min(n, Len(f.head))
        p == Min(f.pad, Max(0, n - Len(f.head)))
        t == Min(Len(f.tail), Max(0, n - Len(f.head) - f.pad))
    IN  [head |-> SubSeq(f.head, h + 1, Len(f.head)),
         pad  |-> f.pad - p,
         tail |-> SubSeq(f.tail, t + 1, Len(f.tail))]

\* String::from_utf8_lossy on a short byte sequence: every maximal invalid
\* part becomes U+FFFD, decoding resumes at the next byte.
RECURSIVE Lossy(_)
Lossy(s) ==
    IF s = <<>> THEN <<>>
    ELSE LET b == Head(s) IN
         IF b = NUL \/ b = ASCII_A THEN <<b>> \o Lossy(Tail(s))
         ELSE IF b = LEAD /\ Len(s) >= 2 /\ s[2] = CONT
              THEN <<E_ACUTE>> \o Lossy(Tail(Tail(s)))
              ELSE <<REPLACEMENT>> \o Lossy(Tail(s))

\* Strict UTF-8 validation as done by Read::read_to_string.
RECURSIVE Utf8Valid(_)
Utf8Valid(s) ==
    IF s = <<>> THEN TRUE
    ELSE LET b == Head(s) IN
         IF b = NUL \/ b = ASCII_A THEN Utf8Valid(Tail(s))
         ELSE IF b = LEAD /\ Len(s) >= 2 /\ s[2] = CONT
              THEN Utf8Valid(Tail(Tail(s)))
              ELSE FALSE

\* Permissive decoding of a chunk; the padding decodes to itself.
LossyChunk(c) ==
    LET k == Canon(c) IN
    [head |-> Lossy(k.head), pad |-> k.pad, tail |-> Lossy(k.tail)]

ValidChunk(c) ==
    LET k == Canon(c) IN Utf8Valid(k.head) /\ Utf8Valid(k.tail)

\* String::push_str of the decoded remainder onto the decoded probe window.
\* A remainder exists only behind a full window, so either the padding was
\* used up by the window or the window ends inside the padding.
PushStr(c1, c2) ==
    Canon(IF c2.pad = 0
          THEN [head |-> c1.head, pad |-> c1.pad, tail |-> c1.tail \o c2.head \o c2.tail]
          ELSE IF c1.pad = 0
               THEN [head |-> c1.head \o c1.tail \o c2.head, pad |-> c2.pad, tail |-> c2.tail]
               ELSE [head |-> c1.head, pad |-> c1.pad + c2.pad, tail |-> c2.tail])

----------------------------------------------------------------------------
(* Results and errors *)

TOO_LARGE == "[File too large, content omitted]"
BINARY_PLACEHOLDER == "[Binary file, content omitted]"

NoPath == <<>>
NoErr == [kind |-> "none", path |-> NoPath, cause |-> "none"]
IoErr(p, c) == [kind |-> "Io", path |-> p, cause |-> c]
WalkErr(p) == [kind |-> "Walk", path |-> p, cause |-> "walk"]

EmptyText == [head |-> <<>>, pad |-> 0, tail |-> <<>>]
Text(c) == [lit |-> "", text |-> Canon(c)]
Placeholder(s) == [lit |-> s, text |-> EmptyText]
NoContent == [lit |-> "none", text |-> EmptyText]

ROk(content, bin) == [ok |-> TRUE, content |-> content, is_binary |-> bin, err |-> NoErr]
RErr(e) == [ok |-> FALSE, content |-> NoContent, is_binary |-> FALSE, err |-> e]

----------------------------------------------------------------------------
(* The content reader: read_file_content *)

Detections == {"Simple", "Accurate", "None"}

\* content_inspector::inspect scans at most this many bytes for a zero byte.
MAX_SCAN_SIZE == 1024

\* content_inspector::inspect(..).is_binary() on the byte values of the
\* model (none of which starts a byte-order mark or a magic number).
InspectIsBinary(chunk) == HasByte(Take(chunk, MAX_SCAN_SIZE), NUL)

\* The `match binary_detection` of read_file_content.
IsBinary(det, chunk) ==
    CASE det = "Simple"   -> HasByte(chunk, NUL)
      [] det = "Accurate" -> InspectIsBinary(chunk)
      [] det = "None"     -> FALSE

\* The probe read with a window one byte short.
FirstChunkShort(f) == Take(f.bytes, PROBE - 1)

\* reader.by_ref().take(4096).read_to_end(&mut first_chunk)
FirstChunk(f) == Take(f.bytes, PROBE)

\* Which calls fail on a file: f.fail names the failing call, "all" is a
\* path on which every call fails (a dangling symlink).
StatFails(f) == f.fail \in {"stat", "all"}
OpenFails(f) == f.fail \in {"open", "all"}

\* metadata.len() > limit
OverLimit(f, limit) == limit # NoLimit /\ Size(f.bytes) > limit

\* The reader with the size check made only after the probe: an oversized
\* file is opened, read and classified first.
ReadFileContentProbeFirst(f, det, limit) ==
    LET first == FirstChunk(f)
        meta  == IF limit # NoLimit THEN <<"metadata">> ELSE <<>>
    IN  IF OpenFails(f)
        THEN [res |-> RErr(IoErr(f.path, "open")), ops |-> <<"open">>]
        ELSE IF f.fail = "probe"
        THEN [res |-> RErr(IoErr(f.path, "read")), ops |-> <<"open", "read_probe">>]
        ELSE IF IsBinary(det, first)
        THEN [res |-> ROk(Placeholder(BINARY_PLACEHOLDER), TRUE),
              ops |-> <<"open", "read_probe">>]
        ELSE IF limit # NoLimit /\ StatFails(f)
        THEN [res |-> RErr(IoErr(f.path, "stat")), ops |-> <<"open", "read_probe">> \o meta]
        ELSE IF OverLimit(f, limit)
        THEN [res |-> ROk(Placeholder(TOO_LARGE), FALSE),
              ops |-> <<"open", "read_probe">> \o meta]
        ELSE IF f.fail = "rest" \/ ~ValidChunk(Drop(f.bytes, PROBE))
        THEN [res |-> RErr(IoErr(f.path, "read")),
              ops |-> <<"open", "read_probe">> \o meta \o <<"read_rest">>]
        ELSE [res |-> ROk(Text(PushStr(LossyChunk(first), LossyChunk(Drop(f.bytes, PROBE)))), FALSE),
              ops |-> <<"open", "read_probe">> \o meta \o <<"read_rest">>]

\* read_file_content(path, binary_detection, size_limit): the Result and the
\* filesystem calls made.  f.fail names the call that fails on this file.
ReadFileContent(f, det, limit) ==
    LET first == FirstChunk(f)
        rest  == Drop(f.bytes, PROBE)
        meta  == IF limit # NoLimit THEN <<"metadata">> ELSE <<>>
    IN  IF limit # NoLimit /\ StatFails(f)
        THEN [res |-> RErr(IoErr(f.path, "stat")), ops |-> meta]
        ELSE IF OverLimit(f, limit)
        THEN [res |-> ROk(Placeholder(TOO_LARGE), FALSE), ops |-> meta]
        ELSE IF OpenFails(f)
        THEN [res |-> RErr(IoErr(f.path, "open")), ops |-> meta \o <<"open">>]
        ELSE IF f.fail = "probe"
        THEN [res |-> RErr(IoErr(f.path, "read")), ops |-> meta \o <<"open", "read_probe">>]
        ELSE IF IsBinary(det, first)
        THEN [res |-> ROk(Placeholder(BINARY_PLACEHOLDER), TRUE),
              ops |-> meta \o <<"open", "read_probe">>]
        ELSE IF f.fail = "rest"
        THEN [res |-> RErr(IoErr(f.path, "read")),
              ops |-> meta \o <<"open", "read_probe", "read_rest">>]
        ELSE IF ~ValidChunk(rest)
        THEN [res |-> RErr(IoErr(f.path, "utf8")),
              ops |-> meta \o <<"open", "read_probe", "read_rest">>]
        ELSE [res |-> ROk(Text(PushStr(LossyChunk(first), LossyChunk(rest))), FALSE),
              ops |-> meta \o <<"open", "read_probe", "read_rest">>]

----------------------------------------------------------------------------
(* Paths and the tree renderer: build_tree_from_entries *)

SEP == 47           \* '/'
DOT == 46           \* '.'

\* Lexicographic order on sequences of character codes (OsStr comparison).
RECURSIVE SeqLess(_, _)
SeqLess(a, b) ==
    IF b = <<>> THEN FALSE
    ELSE IF a = <<>> THEN TRUE
    ELSE IF Head(a) # Head(b) THEN Head(a) < Head(b)
    ELSE SeqLess(Tail(a), Tail(b))

\* The path as one string, components joined by the separator.
RECURSIVE Raw(_)
Raw(p) ==
    IF p = <<>> THEN <<>>
    ELSE IF Len(p) = 1 THEN p[1]
    ELSE p[1] \o <<SEP>> \o Raw(Tail(p))

\* Comparison of the two paths as raw strings.
RawLess(a, b) == SeqLess(Raw(a), Raw(b))

\* a.components().cmp(b.components()) == Less
RECURSIVE PathLess(_, _)
PathLess(a, b) ==
    IF b = <<>> THEN FALSE
    ELSE IF a = <<>> THEN TRUE
    ELSE IF Head(a) # Head(b) THEN SeqLess(Head(a), Head(b))
    ELSE PathLess(Tail(a), Tail(b))

\* Insertion of e behind every element not greater than it.
RECURSIVE InsertSorted(_, _)
InsertSorted(e, s) ==
    IF s = <<>> THEN <<e>>
    ELSE IF PathLess(e, Head(s)) THEN <<e>> \o s
    ELSE <<Head(s)>> \o InsertSorted(e, Tail(s))

\* sorted.sort_by(|a, b| a.components().cmp(b.components())): a stable sort.
RECURSIVE SortBy(_)
SortBy(s) ==
    IF s = <<>> THEN <<>>
    ELSE InsertSorted(s[Len(s)], SortBy(SubSeq(s, 1, Len(s) - 1)))

IsPrefix(a, b) == Len(a) <= Len(b) /\ SubSeq(b, 1, Len(a)) = a

\* entry.strip_prefix(root).unwrap_or(entry)
StripPrefix(root, p) == IF IsPrefix(root, p) THEN SubSeq(p, Len(root) + 1, Len(p)) ELSE p

NoName == <<>>
HeaderLine(root) == [kind |-> "header", bars |-> 0, name |-> NoName, root |-> root]

\* One rendered entry: "│   " repeated depth-1 times, "├── ", the file name.
EntryLine(root, p) ==
    LET relative == StripPrefix(root, p) IN
    [kind |-> "entry", bars |-> Len(relative) - 1, name |-> relative[Len(relative)],
     root |-> NoPath]

\* A sorted list with each run of equal paths reduced to one.
RECURSIVE Dedup(_)
Dedup(s) ==
    IF Len(s) <= 1 THEN s
    ELSE IF s[1] = s[2] THEN Dedup(Tail(s))
    ELSE <<s[1]>> \o Dedup(Tail(s))

\* The renderer with repeated paths removed after the sort.
BuildTreeDedup(root, entries) ==
    LET sorted == Dedup(SortBy(SelectSeq(entries, LAMBDA p : p # root))) IN
    <<HeaderLine(root)>> \o [i \in 1..Len(sorted) |-> EntryLine(root, sorted[i])]

\* build_tree_from_entries(root, entries): the lines, to be joined by "\n".
BuildTree(root, entries) ==
    LET sorted == SortBy(SelectSeq(entries, LAMBDA p : p # root)) IN
    <<HeaderLine(root)>> \o [i \in 1..Len(sorted) |-> EntryLine(root, sorted[i])]

\* The characters of the rendered tree.
LF == 10            \* the line break of lines.join("\n")
SPACE == 32
HASH == 35          \* '#'
VBAR == 9474        \* U+2502, the vertical bar
TEE == 9500         \* U+251C, the branch
DASH == 9472        \* U+2500, the horizontal bar

RECURSIVE Repeat(_, _)
Repeat(s, n) == IF n <= 0 THEN <<>> ELSE s \o Repeat(s, n - 1)

\* format!(".  # {}", root.display()) without the root.
HeaderPrefix == <<DOT, SPACE, SPACE, HASH, SPACE>>

\* The text of one line: the header, or the prefix (empty at depth 0) and
\* the file name as it is.
RenderLine(l) ==
    IF l.kind = "header" THEN HeaderPrefix \o Raw(l.root)
    ELSE (IF l.bars < 0 THEN <<>>
          ELSE Repeat(<<VBAR, SPACE, SPACE, SPACE>>, l.bars) \o <<TEE, DASH, DASH, SPACE>>)
         \o l.name

\* lines.join("\n")
RECURSIVE JoinLines(_)
JoinLines(ls) ==
    IF ls = <<>> THEN <<>>
    ELSE IF Len(ls) = 1 THEN ls[1]
    ELSE ls[1] \o <<LF>> \o JoinLines(Tail(ls))

\* The String returned by build_tree_from_entries for the lines pushed.
TreeString(lines) == JoinLines([i \in 1..Len(lines) |-> RenderLine(lines[i])])

----------------------------------------------------------------------------
(* The directory tree on disk and the Walker *)

\* fs = [root, kids, sub]: the root node, the listing of the root directory
\* and the listing of the directory r/a, each in the order read_dir yields.
\* A node is [path, kind, bytes, fail, gitignored, unreadable] with kind
\* "dir", "file" or "link" (a symlink to nowhere).

RootPath == <<<<114>>>>            \* "r"
APath == <<<<114>>, <<97>>>>       \* "r/a", the one directory below the root

NoDepth == NoLimit

AllNodes(f) == {f.root} \cup Range(f.kids) \cup Range(f.sub)
NodeAt(f, p) == CHOOSE n \in AllNodes(f) : n.path = p
Children(f, n) ==
    IF n.path = f.root.path THEN f.kids
    ELSE IF n.path = APath THEN f.sub
    ELSE <<>>

Hidden(n) == LET name == n.path[Len(n.path)] IN name # <<>> /\ name[1] = DOT

IsSuffix(a, b) == Len(a) <= Len(b) /\ SubSeq(b, Len(b) - Len(a) + 1, Len(b)) = a

\* GlobSet::is_match(entry.path()) for the pattern shapes of the model:
\* "*s" (the star also crosses separators), "s*" and the literal "s", each
\* matched against the whole path.
GlobMatch(g, p) ==
    CASE g.kind = "suffix"  -> IsSuffix(g.s, Raw(p))
      [] g.kind = "prefix"  -> IsPrefix(g.s, Raw(p))
      [] g.kind = "literal" -> g.s = Raw(p)
      [] OTHER              -> FALSE

Excluded(o, p) == \E i \in 1..Len(o.ignore_patterns) : GlobMatch(o.ignore_patterns[i], p)

\* The exclusion filter tied to the ignore-file switch.
SkipEntryCoupled(n, depth, o) ==
    /\ depth # 0
    /\ \/ o.respect_gitignore /\ (n.gitignored \/ Excluded(o, n.path))
       \/ ~o.include_hidden /\ Hidden(n)

\* Whether the walk drops an entry (and, for a directory, all below it):
\* the standard filters set by the builder and the filter_entry closure.
\* The entry of depth 0 is never tested.
SkipEntry(n, depth, o) ==
    /\ depth # 0
    /\ \/ o.respect_gitignore /\ n.gitignored
       \/ ~o.include_hidden /\ Hidden(n)
       \/ Excluded(o, n.path)

WOk(p) == [ok |-> TRUE, path |-> p, err |-> NoErr]
WErr(e) == [ok |-> FALSE, path |-> NoPath, err |-> e]

WithinDepth(depth, o) == o.max_depth = NoDepth \/ depth <= o.max_depth

\* The items of Walker::into_iter, depth first, each directory before its
\* content; a directory that cannot be listed contributes an error item.
RECURSIVE WalkListing(_, _, _, _)
RECURSIVE VisitNode(_, _, _, _)
VisitNode(n, depth, f, o) ==
    IF SkipEntry(n, depth, o) \/ ~WithinDepth(depth, o) THEN <<>>
    ELSE <<WOk(n.path)>> \o
         (IF n.kind = "dir" /\ WithinDepth(depth + 1, o)
          THEN IF n.unreadable THEN <<WErr(WalkErr(n.path))>>
               ELSE WalkListing(Children(f, n), depth + 1, f, o)
          ELSE <<>>)
WalkListing(list, depth, f, o) ==
    IF list = <<>> THEN <<>>
    ELSE VisitNode(Head(list), depth, f, o) \o WalkListing(Tail(list), depth, f, o)

WalkItems(f, o) == VisitNode(f.root, 0, f, o)

BadGlobs(o) == {i \in 1..Len(o.ignore_patterns) : o.ignore_patterns[i].kind = "bad"}

\* A construction that leaves out the patterns it cannot parse.
WalkerNewLenient(o) == WOk(o.root)

\* Walker::new: the first malformed pattern fails the construction.
WalkerNew(o) ==
    IF BadGlobs(o) # {}
    THEN WErr(WalkErr(<<o.ignore_patterns[CHOOSE i \in BadGlobs(o) :
                                          \A j \in BadGlobs(o) : i <= j].s>>))
    ELSE WOk(o.root)

\* Walker::collect_entries: collect() into a Result stops at the first Err.
CollectEntries(items) ==
    LET bad == {i \in 1..Len(items) : ~items[i].ok} IN
    IF bad # {}
    THEN [ok |-> FALSE, paths |-> <<>>,
          err |-> items[CHOOSE i \in bad : \A j \in bad : i <= j].err]
    ELSE [ok |-> TRUE, paths |-> [i \in 1..Len(items) |-> items[i].path], err |-> NoErr]

\* No test at all: every walked path is taken for a file.
IsFileAlways(f, p) == TRUE

\* Path::is_file: a successful metadata call that reports a regular file.
IsFile(f, p) == LET n == NodeAt(f, p) IN n.kind = "file" /\ ~StatFails(n)

----------------------------------------------------------------------------
(* The scan engine *)

NoSize == NoLimit
NoEntry == [path |-> NoPath, content |-> NoContent, is_binary |-> FALSE, size |-> NoSize]
EmptySlot == [ok |-> FALSE, entry |-> NoEntry, err |-> NoErr]

\* The body with the size taken only for a file whose content was captured.
ProcessOneSizeTextOnly(f, o, p) ==
    LET n == NodeAt(f, p)
        r == ReadFileContent(n, o.binary_detection, o.file_size_limit).res
        sized == o.include_file_size /\ r.ok /\ r.content.lit = ""
    IN  IF ~r.ok THEN [ok |-> FALSE, entry |-> NoEntry, err |-> r.err]
        ELSE IF sized /\ StatFails(n)
        THEN [ok |-> FALSE, entry |-> NoEntry, err |-> IoErr(p, "stat")]
        ELSE [ok |-> TRUE,
              entry |-> [path |-> p, content |-> r.content, is_binary |-> r.is_binary,
                         size |-> IF sized THEN Size(n.bytes) ELSE NoSize],
              err |-> NoErr]

\* The body shared by process_files, process_files_parallel and
\* SnapcatStream::next: read the content, then stat for the size if asked.
ProcessOne(f, o, p) ==
    LET n == NodeAt(f, p)
        r == ReadFileContent(n, o.binary_detection, o.file_size_limit).res
    IN  IF ~r.ok THEN [ok |-> FALSE, entry |-> NoEntry, err |-> r.err]
        ELSE IF o.include_file_size /\ StatFails(n)
        THEN [ok |-> FALSE, entry |-> NoEntry, err |-> IoErr(p, "stat")]
        ELSE [ok |-> TRUE,
              entry |-> [path |-> p, content |-> r.content, is_binary |-> r.is_binary,
                         size |-> IF o.include_file_size THEN Size(n.bytes) ELSE NoSize],
              err |-> NoErr]

RECURSIVE ProcessRest(_, _, _, _)
ProcessRest(paths, acc, f, o) ==
    IF paths = <<>> THEN [ok |-> TRUE, files |-> acc, err |-> NoErr]
    ELSE LET r == ProcessOne(f, o, Head(paths)) IN
         IF ~r.ok THEN [ok |-> FALSE, files |-> <<>>, err |-> r.err]
         ELSE ProcessRest(Tail(paths), acc \o <<r.entry>>, f, o)

\* A loop that leaves out the files it cannot read.
RECURSIVE ProcessFilesSkipErrors(_, _, _)
ProcessFilesSkipErrors(paths, f, o) ==
    IF paths = <<>> THEN [ok |-> TRUE, files |-> <<>>, err |-> NoErr]
    ELSE LET r == ProcessOne(f, o, Head(paths))
             rest == ProcessFilesSkipErrors(Tail(paths), f, o)
         IN  [ok |-> TRUE,
              files |-> (IF r.ok THEN <<r.entry>> ELSE <<>>) \o rest.files,
              err |-> NoErr]

\* process_files: the loop with `?` on every read.
ProcessFiles(paths, f, o) == ProcessRest(paths, <<>>, f, o)

ScanOk(tree, files) == [ok |-> TRUE, tree |-> tree, files |-> files, err |-> NoErr]
ScanErr(e) == [ok |-> FALSE, tree |-> <<>>, files |-> <<>>, err |-> e]

\* snapcat up to the fan-out: Walker::new, collect_entries, the tree and the
\* partition of the entries into regular files.
Prepare(f, o) ==
    LET w == WalkerNew(o)
        c == CollectEntries(WalkItems(f, o))
    IN  IF ~w.ok THEN [ok |-> FALSE, tree |-> <<>>, paths |-> <<>>, err |-> w.err]
        ELSE IF ~c.ok THEN [ok |-> FALSE, tree |-> <<>>, paths |-> <<>>, err |-> c.err]
        ELSE [ok |-> TRUE, tree |-> BuildTree(o.root, c.paths),
              paths |-> SelectSeq(c.paths, LAMBDA p : IsFile(f, p)), err |-> NoErr]

\* snapcat without the parallel feature.
SnapcatResult(f, o) ==
    LET pre == Prepare(f, o)
        pf  == ProcessFiles(pre.paths, f, o)
    IN  IF ~pre.ok THEN ScanErr(pre.err)
        ELSE IF ~pf.ok THEN ScanErr(pf.err)
        ELSE ScanOk(pre.tree, pf.files)

ParIdle ==
    /\ phase = "idle" /\ ptree = <<>> /\ ppaths = <<>>
    /\ task = <<>> /\ slots = <<>> /\ saved = NoErr

StreamIdle == sstate = "none" /\ cursor = 0 /\ yielded = <<>> /\ reads = <<>>

\* One call of snapcat, sequential build.
Snapcat ==
    /\ mode = "seq"
    /\ Len(outcomes) < 2
    /\ outcomes' = Append(outcomes, SnapcatResult(fs, opt))
    /\ UNCHANGED <<fs, opt, mode, parVars, streamVars, readVars, treeVars>>

\* snapcat with the parallel feature, up to the start of the worker tasks.
ParBegin ==
    /\ mode = "par"
    /\ phase = "idle"
    /\ Len(outcomes) < 2
    /\ LET pre == Prepare(fs, opt) IN
       IF ~pre.ok
       THEN /\ outcomes' = Append(outcomes, ScanErr(pre.err))
            /\ UNCHANGED parVars
       ELSE /\ phase' = "tasks"
            /\ ptree' = pre.tree
            /\ ppaths' = pre.paths
            /\ task' = [i \in 1..Len(pre.paths) |-> "pending"]
            /\ slots' = [i \in 1..Len(pre.paths) |-> EmptySlot]
            /\ saved' = NoErr
            /\ UNCHANGED outcomes
    /\ UNCHANGED <<fs, opt, mode, streamVars, readVars, treeVars>>

\* A worker takes item i; no item is taken once an error has been kept.
TaskStart(i) ==
    /\ phase = "tasks"
    /\ task[i] = "pending"
    /\ saved = NoErr
    /\ task' = [task EXCEPT ![i] = "running"]
    /\ UNCHANGED <<phase, ptree, ppaths, slots, saved>>
    /\ UNCHANGED <<fs, opt, mode, outcomes, streamVars, readVars, treeVars>>

\* The results written in the order the tasks finish.
TaskFinishUnordered(i) ==
    /\ phase = "tasks"
    /\ task[i] = "running"
    /\ LET r == ProcessOne(fs, opt, ppaths[i])
           k == CHOOSE j \in 1..Len(slots) :
                    slots[j] = EmptySlot /\ \A m \in 1..(j - 1) : slots[m] # EmptySlot
       IN  /\ slots' = [slots EXCEPT ![k] = r]
           /\ saved' = IF ~r.ok /\ saved = NoErr THEN r.err ELSE saved
    /\ task' = [task EXCEPT ![i] = "done"]
    /\ UNCHANGED <<phase, ptree, ppaths>>
    /\ UNCHANGED <<fs, opt, mode, outcomes, streamVars, readVars, treeVars>>

\* The closure of the parallel map on item i, and the collect's handling of
\* its result: position i of the output, or the error kept if none is yet.
TaskFinish(i) ==
    /\ phase = "tasks"
    /\ task[i] = "running"
    /\ LET r == ProcessOne(fs, opt, ppaths[i]) IN
       /\ slots' = [slots EXCEPT ![i] = r]
       /\ saved' = IF ~r.ok /\ saved = NoErr THEN r.err ELSE saved
    /\ task' = [task EXCEPT ![i] = "done"]
    /\ UNCHANGED <<phase, ptree, ppaths>>
    /\ UNCHANGED <<fs, opt, mode, outcomes, streamVars, readVars, treeVars>>

\* collect() returns: the kept error, or the entries by position.
ParCollect ==
    /\ phase = "tasks"
    /\ \A i \in 1..Len(task) : task[i] # "running"
    /\ saved # NoErr \/ \A i \in 1..Len(task) : task[i] = "done"
    /\ outcomes' = Append(outcomes,
                      IF saved # NoErr THEN ScanErr(saved)
                      ELSE ScanOk(ptree, [i \in 1..Len(slots) |-> slots[i].entry]))
    /\ phase' = "idle"
    /\ UNCHANGED <<ptree, ppaths, task, slots, saved>>
    /\ UNCHANGED <<fs, opt, mode, streamVars, readVars, treeVars>>

\* A constructor that reads every regular file ahead of the first pull.
StreamNewPrefetch ==
    /\ mode = "stream"
    /\ sstate = "none"
    /\ sstate' = IF WalkerNew(opt).ok THEN "open" ELSE "failed"
    /\ reads' = IF WalkerNew(opt).ok
                THEN LET items == WalkItems(fs, opt)
                         files == SelectSeq(items, LAMBDA it : it.ok /\ IsFile(fs, it.path))
                     IN  [i \in 1..Len(files) |-> files[i].path]
                ELSE reads
    /\ UNCHANGED <<cursor, yielded>>
    /\ UNCHANGED <<fs, opt, mode, outcomes, parVars, readVars, treeVars>>

\* SnapcatStream::new
StreamNew ==
    /\ mode = "stream"
    /\ sstate = "none"
    /\ sstate' = IF WalkerNew(opt).ok THEN "open" ELSE "failed"
    /\ UNCHANGED <<cursor, yielded, reads>>
    /\ UNCHANGED <<fs, opt, mode, outcomes, parVars, readVars, treeVars>>

\* A path_iter without the regular-file test.
PassesAll(f, item) == TRUE

\* The walker items path_iter lets through: errors and regular files.
Passes(f, item) == ~item.ok \/ IsFile(f, item.path)

\* An iterator that ends at the first failed item.
StreamNextFused ==
    /\ sstate = "open"
    /\ LET items == WalkItems(fs, opt)
           next == {j \in (cursor + 1)..Len(items) : Passes(fs, items[j])}
       IN  IF next = {}
           THEN /\ sstate' = "done"
                /\ cursor' = Len(items)
                /\ UNCHANGED <<yielded, reads>>
           ELSE LET j == CHOOSE j \in next : \A m \in next : j <= m
                    r == IF items[j].ok THEN ProcessOne(fs, opt, items[j].path)
                         ELSE [ok |-> FALSE, entry |-> NoEntry, err |-> items[j].err]
                IN  /\ cursor' = j
                    /\ yielded' = Append(yielded, r)
                    /\ reads' = IF items[j].ok THEN Append(reads, items[j].path) ELSE reads
                    /\ sstate' = IF r.ok THEN "open" ELSE "done"
    /\ UNCHANGED <<fs, opt, mode, outcomes, parVars, readVars, treeVars>>

\* SnapcatStream::next: pull path_iter (which skips what is no regular file);
\* None at its end, a walker error as it is, else the file read and wrapped.
StreamNext ==
    /\ sstate = "open"
    /\ LET items == WalkItems(fs, opt)
           next == {j \in (cursor + 1)..Len(items) : Passes(fs, items[j])}
       IN  IF next = {}
           THEN /\ sstate' = "done"
                /\ cursor' = Len(items)
                /\ UNCHANGED <<yielded, reads>>
           ELSE LET j == CHOOSE j \in next : \A m \in next : j <= m
                    r == IF items[j].ok THEN ProcessOne(fs, opt, items[j].path)
                         ELSE [ok |-> FALSE, entry |-> NoEntry, err |-> items[j].err]
                IN  /\ cursor' = j
                    /\ yielded' = Append(yielded, r)
                    /\ reads' = IF items[j].ok THEN Append(reads, items[j].path) ELSE reads
                    /\ UNCHANGED sstate
    /\ UNCHANGED <<fs, opt, mode, outcomes, parVars, readVars, treeVars>>

----------------------------------------------------------------------------
(* Inputs of the content reader *)

MaxHead == 1
MaxTail == 2

Pads == {0, PROBE - 1, PROBE}
Fails == {"none", "stat", "open", "probe", "rest", "all"}
Limits == {NoLimit, 2, PROBE}

ByteStrings ==
    [head : SeqsUpTo(Bytes, MaxHead), pad : Pads, tail : SeqsUpTo(Bytes, MaxTail)]

ReadFiles == [path : {APath}, bytes : ByteStrings, fail : Fails]

\* Nodes of the directory tree.  A directory has the size of one block and
\* cannot be read as a file; on a dangling symlink every call fails.
Chunk(bs) == [head |-> bs, pad |-> 0, tail |-> <<>>]
DirNode(p, unreadable, gi) ==
    [path |-> p, kind |-> "dir", bytes |-> [head |-> <<>>, pad |-> PROBE, tail |-> <<>>],
     fail |-> "probe", gitignored |-> gi, unreadable |-> unreadable]
FileNode(p, v, gi) ==
    [path |-> p, kind |-> "file", bytes |-> v.bytes, fail |-> v.fail,
     gitignored |-> gi, unreadable |-> FALSE]
LinkNode(p, gi) ==
    [path |-> p, kind |-> "link", bytes |-> EmptyText, fail |-> "all",
     gitignored |-> gi, unreadable |-> FALSE]

VText == [bytes |-> Chunk(<<ASCII_A>>), fail |-> "none"]
VBinary == [bytes |-> Chunk(<<NUL, ASCII_A>>), fail |-> "none"]
VNoOpen == [bytes |-> Chunk(<<ASCII_A>>), fail |-> "open"]
VNoStat == [bytes |-> Chunk(<<ASCII_A>>), fail |-> "stat"]

SuffixGlob(s) == [kind |-> "suffix", s |-> s]
PrefixGlob(s) == [kind |-> "prefix", s |-> s]
LiteralGlob(s) == [kind |-> "literal", s |-> s]
BadGlob == [kind |-> "bad", s |-> <<91>>]         \* "["

\* SnapcatOptions::default() with the root of the model.
DefaultOptions ==
    [root |-> RootPath, respect_gitignore |-> TRUE, max_depth |-> NoDepth,
     include_hidden |-> FALSE, ignore_patterns |-> <<>>, file_size_limit |-> NoLimit,
     binary_detection |-> "Simple", include_file_size |-> FALSE]

Unset == [res |-> RErr(NoErr), ops |-> <<>>]

\* The parts of the state a specification does not use stay parked.
ReadIdle ==
    /\ rfile = [path |-> APath, bytes |-> EmptyText, fail |-> "none"]
    /\ rdet = "None"
    /\ rlimit = NoLimit
    /\ rres = Unset.res
    /\ rops = Unset.ops
    /\ rpc = "idle"

TreeIdle ==
    /\ troot = NoPath
    /\ tentries = <<>>
    /\ ttree = <<>>
    /\ tstring = <<>>
    /\ tpc = "idle"

EngineIdle ==
    /\ fs = [root |-> DirNode(RootPath, FALSE, FALSE), kids |-> <<>>, sub |-> <<>>]
    /\ opt = DefaultOptions
    /\ mode = "none"
    /\ outcomes = <<>>
    /\ ParIdle
    /\ StreamIdle

InitRead ==
    /\ rfile \in ReadFiles
    /\ rdet \in Detections
    /\ rlimit \in Limits
    /\ rres = Unset.res
    /\ rops = Unset.ops
    /\ rpc = "call"
    /\ TreeIdle
    /\ EngineIdle

ReadCall ==
    /\ rpc = "call"
    /\ LET r == ReadFileContent(rfile, rdet, rlimit) IN
       /\ rres' = r.res
       /\ rops' = r.ops
    /\ rpc' = "ret"
    /\ UNCHANGED <<rfile, rdet, rlimit>>
    /\ UNCHANGED <<treeVars, engineVars>>

NextRead == ReadCall

SpecRead == InitRead /\ [][NextRead]_vars

\* The whole file decoded permissively.
WholeLossy(f) == Text(LossyChunk(f.bytes))

\* C5: a file whose size, as reported by a successful metadata call, exceeds
\* the configured ceiling yields the oversize placeholder with is_binary
\* false under every strategy and whatever its bytes are, and the metadata
\* call is the only filesystem call made.
C5_OversizePlaceholder ==
    (rpc = "ret" /\ rlimit # NoLimit /\ ~StatFails(rfile) /\ Size(rfile.bytes) > rlimit)
        => /\ rres = ROk(Placeholder(TOO_LARGE), FALSE)
           /\ rops = <<"metadata">>

C5_Witness ==
    /\ rpc = "ret" /\ rlimit = PROBE /\ Size(rfile.bytes) = PROBE + 1
    /\ rdet = "Simple" /\ HasByte(rfile.bytes, NUL)
    /\ rres.content.lit = TOO_LARGE

\* C6: under the null-byte strategy a file that is read (not over the
\* ceiling, no failing call before classification) is classified binary
\* exactly when a zero byte lies within its first 4096 bytes; a binary file
\* yields the binary placeholder with is_binary true and the remainder is
\* never read.
C6_SimpleNullByte ==
    (rpc = "ret" /\ rdet = "Simple" /\ ~(rlimit # NoLimit /\ Size(rfile.bytes) > rlimit)
       /\ ~(rlimit # NoLimit /\ StatFails(rfile)) /\ ~OpenFails(rfile)
       /\ rfile.fail # "probe")
        => LET zero == \/ NUL \in Range(rfile.bytes.head)
                       \/ \E i \in 1..Len(rfile.bytes.tail) :
                             /\ rfile.bytes.tail[i] = NUL
                             /\ Len(rfile.bytes.head) + rfile.bytes.pad + i <= PROBE
           IN  /\ zero => /\ rres = ROk(Placeholder(BINARY_PLACEHOLDER), TRUE)
                          /\ "read_rest" \notin Range(rops)
               /\ ~zero => /\ ~rres.is_binary
                           /\ rres.content.lit # BINARY_PLACEHOLDER
                           /\ "read_rest" \in Range(rops)

C6_Witness ==
    /\ rpc = "ret" /\ rdet = "Simple" /\ rlimit = NoLimit
    /\ rfile.bytes.pad = PROBE - 1 /\ rfile.bytes.head = <<>>
    /\ rfile.bytes.tail = <<NUL, ASCII_A>>
    /\ rres.is_binary

\* C7: every readable file classified as text is returned in full, decoded
\* permissively: invalid bytes anywhere are replaced and never fatal.
C7_TextFullContent ==
    (rpc = "ret" /\ rfile.fail = "none" /\ ~OverLimit(rfile, rlimit)
       /\ ~IsBinary(rdet, FirstChunk(rfile)))
        => rres = ROk(WholeLossy(rfile), FALSE)

----------------------------------------------------------------------------
(* The tree renderer on its own *)

MaxEntries == 3

TreePaths ==
    { RootPath,
      <<<<114>>, <<97>>>>,                     \* "r/a"
      <<<<114>>, <<97>>, <<98>>>>,             \* "r/a/b"
      <<<<114>>, <<97, 45, 98>>>>,             \* "r/a-b"
      <<<<114>>, <<98>>>>,                     \* "r/b"
      <<<<114>>, <<120, LF, DOT, SPACE, SPACE, HASH, SPACE, 114>>>>,
                                               \* "r/x" LF ".  # r": a name of two lines
      <<<<120>>>> }                            \* "x", outside the root

InitTree ==
    /\ troot = RootPath
    /\ tentries \in SeqsUpTo(TreePaths, MaxEntries)
    /\ ttree = <<>>
    /\ tstring = <<>>
    /\ tpc = "call"
    /\ ReadIdle
    /\ EngineIdle

TreeCall ==
    /\ tpc = "call"
    /\ ttree' = BuildTree(troot, tentries)
    /\ tstring' = TreeString(BuildTree(troot, tentries))
    /\ tpc' = "ret"
    /\ UNCHANGED <<troot, tentries>>
    /\ UNCHANGED <<readVars, engineVars>>

NextTree == TreeCall

SpecTree == InitTree /\ [][NextTree]_vars

\* Every reordering of a list.
PermsOf(s) ==
    LET n == Len(s)
        bij == {f \in [1..n -> 1..n] : \A i, j \in 1..n : f[i] = f[j] => i = j}
    IN  {[i \in 1..n |-> s[f[i]]] : f \in bij}

\* a is before b component by component: at the first component where they
\* differ a's is the smaller name, or a is a proper prefix of b.
NameBefore(x, y) ==
    \E k \in 1..(Len(y)) :
        /\ \A i \in 1..(k - 1) : i <= Len(x) /\ x[i] = y[i]
        /\ k - 1 <= Len(x)
        /\ (k > Len(x) \/ x[k] < y[k])

ComponentwiseBefore(a, b) ==
    \E k \in 1..Len(b) :
        /\ k - 1 <= Len(a)
        /\ \A i \in 1..(k - 1) : a[i] = b[i]
        /\ (k > Len(a) \/ (a[k] # b[k] /\ NameBefore(a[k], b[k])))

\* C10: the tree is the same for every reordering of the entry list, and its
\* entry lines are those of the non-root entries in component-wise path
\* order, so that a directory precedes its descendants.
C10_TreeOrderIndependent ==
    (tpc = "ret") =>
        /\ \A q \in PermsOf(tentries) : BuildTree(troot, q) = ttree
        /\ \E L \in PermsOf(SelectSeq(tentries, LAMBDA p : p # troot)) :
              /\ \A i, j \in 1..Len(L) : i < j => ~ComponentwiseBefore(L[j], L[i])
              /\ \A i, j \in 1..Len(L) :
                    (L[i] # L[j] /\ IsPrefix(L[i], L[j])) => i < j
              /\ ttree = <<HeaderLine(troot)>> \o
                         [i \in 1..Len(L) |-> EntryLine(troot, L[i])]

C10_Witness ==
    /\ tpc = "ret"
    /\ tentries = << <<<<114>>, <<97, 45, 98>>>>, <<<<114>>, <<97>>, <<98>>>>,
                     <<<<114>>, <<97>>>> >>
    /\ Len(ttree) = 4
    /\ ttree[3].bars = 1
    /\ ttree[4].name = <<97, 45, 98>>

\* The lines of a string, as a reader of the string sees them.
RECURSIVE SplitLines(_)
SplitLines(s) ==
    LET breaks == {i \in 1..Len(s) : s[i] = LF} IN
    IF breaks = {} THEN <<s>>
    ELSE LET k == CHOOSE i \in breaks : \A j \in breaks : i <= j IN
         <<SubSeq(s, 1, k - 1)>> \o SplitLines(SubSeq(s, k + 1, Len(s)))

\* C11: the tree string has exactly one header line, it is its first line
\* and names the root; an entry equal to the root produces no line, so that
\* the string has one line per other entry behind the header, and with no
\* such entry it is the header line alone.
C11_SingleHeader ==
    (tpc = "ret") =>
        LET ls == SplitLines(tstring)
            kept == SelectSeq(tentries, LAMBDA p : p # troot)
        IN  /\ ls[1] = HeaderPrefix \o Raw(troot)
            /\ {i \in 1..Len(ls) : IsPrefix(HeaderPrefix, ls[i])} = {1}
            /\ Len(ls) = 1 + Len(kept)
            /\ kept = <<>> => tstring = HeaderPrefix \o Raw(troot)

\* C15, as stated: whatever the list of entries under the root, also one in
\* which a path occurs more than once, the tree has exactly one entry line
\* for each distinct path other than the root.
C15_OneLinePerDistinctPath ==
    (tpc = "ret" /\ \A i \in 1..Len(tentries) : IsPrefix(troot, tentries[i])) =>
        Len(ttree) = 1 + Cardinality({p \in Range(tentries) : p # troot})

\* C15, amended: the entries are sorted and not deduplicated: behind the
\* header the tree has one entry line for each occurrence of a path other
\* than the root, so that a path occurring k times is rendered k times, and
\* the returned string is these lines joined; for a list without repeated
\* paths that is one line for each distinct path.
C15_OneLinePerOccurrence ==
    (tpc = "ret") =>
        LET kept == SelectSeq(tentries, LAMBDA p : p # troot)
            same(p) == {j \in 1..Len(kept) : EntryLine(troot, kept[j]) = EntryLine(troot, p)}
        IN  /\ Len(ttree) = 1 + Len(kept)
            /\ \A p \in Range(kept) :
                  Cardinality({i \in 2..Len(ttree) : ttree[i] = EntryLine(troot, p)})
                      = Cardinality(same(p))
            /\ tstring = JoinLines([i \in 1..Len(ttree) |-> RenderLine(ttree[i])])
            /\ (\A i, j \in 1..Len(kept) : kept[i] = kept[j] => i = j)
                  => Len(ttree) = 1 + Cardinality(Range(kept))

C15_Witness ==
    /\ tpc = "ret"
    /\ tentries = << <<<<114>>, <<97>>>>, <<<<114>>, <<98>>>>, <<<<114>>, <<97>>>> >>
    /\ Len(ttree) = 4
    /\ ttree[2] = ttree[3]
    /\ ttree[4].name = <<98>>

----------------------------------------------------------------------------
(* The scan engine: eager sequential, eager parallel and streaming scans of *)
(* trees whose files may fail to read                                       *)

MaxSub == 2

CPath == <<<<114>>, <<99, 46, 108>>>>          \* "r/c.l"
SubPaths ==
    << <<<<114>>, <<97>>, <<98>>>>,            \* "r/a/b"
       <<<<114>>, <<97>>, <<101>>>>,           \* "r/a/e"
       <<<<114>>, <<97>>, <<102>>>> >>         \* "r/a/f"

Variants == {VText, VBinary, VNoOpen, VNoStat}
SubVariants == {VText, VNoOpen}

SubListings ==
    UNION {{[i \in 1..k |-> FileNode(SubPaths[i], v[i], FALSE)] : v \in [1..k -> SubVariants]}
           : k \in 0..Min(MaxSub, Len(SubPaths))}

\* Both listing orders of the root; r/a is a directory (a listable one with
\* any content, or one that cannot be listed) or a file.
EngineTrees ==
    LET top == DirNode(RootPath, FALSE, FALSE)
        cs == {FileNode(CPath, v, FALSE) : v \in Variants} \cup {LinkNode(CPath, FALSE)}
        orders(a, c) == {<<a, c>>, <<c, a>>}
    IN  {[root |-> top, kids |-> k, sub |-> sb] :
            k \in UNION {orders(DirNode(APath, FALSE, FALSE), c) : c \in cs},
            sb \in SubListings}
        \cup
        {[root |-> top, kids |-> k, sub |-> <<>>] :
            k \in UNION {orders(DirNode(APath, TRUE, FALSE), c) : c \in cs}}
        \cup
        {[root |-> top, kids |-> k, sub |-> <<>>] :
            k \in UNION {orders(FileNode(APath, v, FALSE), c) : v \in Variants, c \in cs}}

EngineOptions ==
    { DefaultOptions,
      [DefaultOptions EXCEPT !.ignore_patterns = <<SuffixGlob(<<46, 108>>)>>],
      [DefaultOptions EXCEPT !.ignore_patterns = <<SuffixGlob(<<46, 108>>), BadGlob>>],
      [DefaultOptions EXCEPT !.file_size_limit = 1],
      [DefaultOptions EXCEPT !.include_file_size = TRUE],
      [DefaultOptions EXCEPT !.include_file_size = TRUE, !.file_size_limit = 1] }

Init ==
    /\ fs \in EngineTrees
    /\ opt \in EngineOptions
    /\ mode \in {"seq", "par", "stream"}
    /\ outcomes = <<>>
    /\ ParIdle
    /\ StreamIdle
    /\ ReadIdle
    /\ TreeIdle

Next ==
    \/ Snapcat
    \/ ParBegin
    \/ \E i \in 1..Len(task) : TaskStart(i)
    \/ \E i \in 1..Len(task) : TaskFinish(i)
    \/ ParCollect
    \/ StreamNew
    \/ StreamNext

Spec == Init /\ [][Next]_vars

\* The regular files of a scan in discovery order, and those among a list
\* of files on which the read (or the stat for the size) fails.
Discovered == Prepare(fs, opt).paths
FailingAmong(paths) == {i \in 1..Len(paths) : ~ProcessOne(fs, opt, paths[i]).ok}
First(S) == CHOOSE i \in S : \A j \in S : i <= j

\* C1, as stated: when a regular file fails to read, every eager scan,
\* sequential or parallel, returns the error of the first failing file in
\* discovery order and no ScanResult.
C1_FirstFailureInDiscoveryOrder ==
    Len(outcomes) > 0 =>
        LET pre == Prepare(fs, opt)
            bad == FailingAmong(pre.paths)
        IN  (pre.ok /\ bad # {}) =>
                \A k \in 1..Len(outcomes) :
                    /\ ~outcomes[k].ok
                    /\ outcomes[k].err = ProcessOne(fs, opt, pre.paths[First(bad)]).err

\* C1, amended: when a regular file fails to read, every eager scan returns
\* Err and neither a tree nor a file list; the error is that of a failing
\* file, the first one in discovery order in the sequential variant.
C1_EagerFailFast ==
    Len(outcomes) > 0 =>
        LET pre == Prepare(fs, opt)
            bad == FailingAmong(pre.paths)
        IN  (pre.ok /\ bad # {}) =>
                \A k \in 1..Len(outcomes) :
                    /\ ~outcomes[k].ok
                    /\ outcomes[k].tree = <<>>
                    /\ outcomes[k].files = <<>>
                    /\ \E i \in bad : outcomes[k].err = ProcessOne(fs, opt, pre.paths[i]).err
                    /\ mode = "seq" =>
                          outcomes[k].err = ProcessOne(fs, opt, pre.paths[First(bad)]).err

C1_Witness ==
    /\ mode = "par"
    /\ Len(outcomes) = 1
    /\ LET bad == FailingAmong(Discovered) IN
       /\ Cardinality(bad) = 2
       /\ \E i \in bad : /\ i # First(bad)
                         /\ outcomes[1].err = ProcessOne(fs, opt, Discovered[i]).err

\* What next must have returned for a prefix of the walker's items: nothing
\* for an entry that is no regular file, the error for an error item, the
\* outcome of the read for a regular file.
RECURSIVE ExpectedItems(_)
ExpectedItems(items) ==
    IF items = <<>> THEN <<>>
    ELSE (IF ~Head(items).ok
          THEN <<[ok |-> FALSE, entry |-> NoEntry, err |-> Head(items).err]>>
          ELSE IF IsFile(fs, Head(items).path)
               THEN <<ProcessOne(fs, opt, Head(items).path)>>
               ELSE <<>>)
         \o ExpectedItems(Tail(items))

\* C2: a stream yields a failed read and a walker error as an Err item and
\* goes on: what it has yielded is always one item per error and per regular
\* file among the walker items consumed, in their order, and None is
\* returned only when every walker item has been consumed.
C2_StreamContinues ==
    (sstate \in {"open", "done"}) =>
        LET items == WalkItems(fs, opt) IN
        /\ cursor <= Len(items)
        /\ yielded = ExpectedItems(SubSeq(items, 1, cursor))
        /\ sstate = "done" => /\ cursor = Len(items)
                              /\ yielded = ExpectedItems(items)

C2_Witness ==
    /\ sstate = "done"
    /\ Len(yielded) = 2
    /\ yielded[1].err.kind = "Walk"
    /\ yielded[2].ok

\* C3, as stated: the parallel scan returns what the sequential scan returns
\* on the same input, whatever the order in which the tasks finish.
C3_ParallelEqualsSequential ==
    (mode = "par" /\ Len(outcomes) > 0) =>
        LET seq == SnapcatResult(fs, opt) IN \A k \in 1..Len(outcomes) : outcomes[k] = seq

\* C3, amended: the parallel scan succeeds exactly when the sequential one
\* does; on success it returns the same tree and the same entries, entry i
\* for the i-th regular file in discovery order; with one failing file it
\* returns the same error; with several it returns the error of one of them.
C3_ParallelAgreesWithSequential ==
    (mode = "par" /\ Len(outcomes) > 0) =>
        LET seq == SnapcatResult(fs, opt)
            paths == Discovered
            bad == FailingAmong(paths)
        IN  \A k \in 1..Len(outcomes) :
                LET o == outcomes[k] IN
                /\ o.ok = seq.ok
                /\ seq.ok => /\ o = seq
                             /\ Len(o.files) = Len(paths)
                             /\ \A i \in 1..Len(o.files) : o.files[i].path = paths[i]
                /\ (~seq.ok /\ Cardinality(bad) <= 1) => o = seq
                /\ (~seq.ok /\ Cardinality(bad) > 1)
                      => \E i \in bad : o = ScanErr(ProcessOne(fs, opt, paths[i]).err)

C3_Witness ==
    /\ mode = "par"
    /\ Len(outcomes) = 1 /\ outcomes[1].ok /\ Len(outcomes[1].files) = 3
    /\ outcomes[1].files[1].is_binary /\ ~outcomes[1].files[2].is_binary
    /\ phase = "tasks" /\ task = <<"pending", "running", "done">>

\* C9, as stated: two eager scans of the unmodified tree with the same
\* options return identical outcomes.
C9_Idempotent ==
    Len(outcomes) = 2 => outcomes[1] = outcomes[2]

\* C9, amended: two eager scans of the unmodified tree with the same options
\* both succeed or both fail; when they succeed the two ScanResults are
\* identical; when they fail the errors are identical in the sequential
\* variant and, in the parallel variant, whenever at most one file fails.
C9_IdempotentOnSuccess ==
    Len(outcomes) = 2 =>
        /\ outcomes[1].ok = outcomes[2].ok
        /\ outcomes[1].ok => outcomes[1] = outcomes[2]
        /\ (mode = "seq" \/ Cardinality(FailingAmong(Discovered)) <= 1)
              => outcomes[1] = outcomes[2]

C9_Witness ==
    /\ mode = "par"
    /\ Len(outcomes) = 2
    /\ outcomes[1].ok
    /\ Len(outcomes[1].files) = 3
    /\ outcomes[1].files[1].content # outcomes[1].files[2].content

\* C12: with a malformed pattern among the exclusion patterns, valid ones
\* beside it or not, every eager scan returns the Walk error of that pattern
\* with no tree and no file, no worker task is started, and
\* SnapcatStream::new returns Err: no stream exists, nothing is yielded and
\* no file is read.
C12_BadGlobFailsConstruction ==
    BadGlobs(opt) # {} =>
        /\ \A k \in 1..Len(outcomes) :
              outcomes[k] = ScanErr(WalkErr(<<opt.ignore_patterns[First(BadGlobs(opt))].s>>))
        /\ phase = "idle" /\ task = <<>> /\ ppaths = <<>>
        /\ sstate \in {"none", "failed"}
        /\ cursor = 0 /\ yielded = <<>> /\ reads = <<>>

C12_Witness ==
    /\ BadGlobs(opt) # {}
    /\ \E i \in 1..Len(opt.ignore_patterns) : opt.ignore_patterns[i].kind = "suffix"
    /\ \E n \in Range(fs.kids) : n.unreadable
    /\ \E n \in Range(fs.kids) : n.kind = "file" /\ n.fail = "none"
    /\ Len(outcomes) = 1
    /\ outcomes[1].err = WalkErr(<<BadGlob.s>>)

\* The regular files among the paths the Walker yields.
WalkedFiles ==
    LET items == WalkItems(fs, opt) IN
    {items[i].path : i \in {j \in 1..Len(items) :
                                items[j].ok /\ NodeAt(fs, items[j].path).kind = "file"}}

\* C13: no failure is dropped and no walked regular file disappears: an
\* eager scan that returns Ok met no traversal error and has an entry for
\* every regular file the Walker yielded; a stream run to its end has
\* yielded every traversal error and, for every regular file the Walker
\* yielded, its entry or an error naming it.
C13_NoErrorDropped ==
    LET items == WalkItems(fs, opt) IN
    /\ \A k \in 1..Len(outcomes) :
          outcomes[k].ok =>
              /\ \A i \in 1..Len(items) : items[i].ok
              /\ \A p \in WalkedFiles :
                    \E j \in 1..Len(outcomes[k].files) : outcomes[k].files[j].path = p
    /\ sstate = "done" =>
          /\ \A i \in 1..Len(items) :
                ~items[i].ok => \E j \in 1..Len(yielded) : yielded[j].err = items[i].err
          /\ \A p \in WalkedFiles :
                \E j \in 1..Len(yielded) :
                    \/ yielded[j].ok /\ yielded[j].entry.path = p
                    \/ ~yielded[j].ok /\ yielded[j].err.path = p

\* The file entries produced so far: those of the eager results, those the
\* worker tasks have finished and those the stream has yielded.
Entries ==
    UNION {Range(outcomes[k].files) : k \in 1..Len(outcomes)}
    \cup {slots[i].entry : i \in {j \in 1..Len(slots) : slots[j].ok}}
    \cup {yielded[i].entry : i \in {j \in 1..Len(yielded) : yielded[j].ok}}

\* C14: every file entry of a sequential, parallel or streaming scan has a
\* size exactly when include_file_size is set, and then it is the size of
\* the file, also when the content is the binary or the oversize
\* placeholder.
C14_SizeIffRequested ==
    \A e \in Entries :
        /\ (e.size # NoSize) <=> opt.include_file_size
        /\ opt.include_file_size => e.size = Size(NodeAt(fs, e.path).bytes)

C14_Witness ==
    /\ opt.include_file_size
    /\ Len(outcomes) = 1 /\ outcomes[1].ok
    /\ \E e \in Range(outcomes[1].files) : e.content.lit = TOO_LARGE /\ e.size = 2
    /\ \E e \in Range(outcomes[1].files) : e.content.lit = "" /\ e.size = 1

\* The paths whose content the yielded items stand for: the path of an
\* entry and the path of a failed read; a traversal error stands for none.
RECURSIVE ReadPaths(_)
ReadPaths(ys) ==
    IF ys = <<>> THEN <<>>
    ELSE (IF Head(ys).ok THEN <<Head(ys).entry.path>>
          ELSE IF Head(ys).err.kind = "Io" THEN <<Head(ys).err.path>>
          ELSE <<>>)
         \o ReadPaths(Tail(ys))

\* C16: a stream reads on demand: constructing it reads no file, and at
\* every moment the files read are exactly those of the items pulled so far,
\* one read per pulled file item in the order of the pulls, so that a
\* consumer that stops pulling leaves every later file unread.
C16_PullBased ==
    /\ (sstate \in {"none", "failed"} \/ yielded = <<>>) => reads = <<>>
    /\ reads = ReadPaths(yielded)
    /\ Len(reads) <= Len(yielded)

C16_Witness ==
    /\ sstate = "open"
    /\ Len(yielded) = 1 /\ yielded[1].ok
    /\ reads = <<yielded[1].entry.path>>
    /\ LET items == WalkItems(fs, opt) IN
       Cardinality({j \in (cursor + 1)..Len(items) :
                       items[j].ok /\ IsFile(fs, items[j].path)}) = 2

\* C17: over a tree on which no traversal and no read fails, the items a
\* stream has yielded when it ends are all entries, and they are the files
\* of the eager result for the same options: the same paths, content,
\* is_binary and size, in the same order.
C17_StreamAgreesWithEager ==
    (sstate = "done") =>
        LET eager == SnapcatResult(fs, opt) IN
        eager.ok =>
            /\ \A i \in 1..Len(yielded) : yielded[i].ok
            /\ [i \in 1..Len(yielded) |-> yielded[i].entry] = eager.files

C17_Witness ==
    /\ sstate = "done"
    /\ SnapcatResult(fs, opt).ok
    /\ opt.include_file_size
    /\ Len(yielded) = 3
    /\ yielded[1].entry.is_binary /\ ~yielded[2].entry.is_binary
    /\ yielded[1].entry.path = CPath /\ yielded[3].entry.path = SubPaths[2]

----------------------------------------------------------------------------
(* The scan engine over trees with ignored, hidden and excluded entries *)

MaxGlobs == 1

HPath == <<<<114>>, <<46, 104>>>>              \* "r/.h"

FilterGlobs ==
    << SuffixGlob(<<46, 108>>),                \* "*.l"
       LiteralGlob(<<114, 47, 97>>),           \* "r/a"
       PrefixGlob(<<114, 47, 97, 47>>),        \* "r/a/*"
       LiteralGlob(<<114>>),                   \* "r"
       SuffixGlob(<<>>) >>                     \* "*"

\* The pattern lists: up to MaxGlobs patterns, in the order of FilterGlobs.
GlobLists ==
    LET picks == {S \in SUBSET (1..Len(FilterGlobs)) : Cardinality(S) <= MaxGlobs}
        nth(S, k) == CHOOSE i \in S : Cardinality({j \in S : j < i}) = k - 1
    IN  {[k \in 1..Cardinality(S) |-> FilterGlobs[nth(S, k)]] : S \in picks}

Listing(S) == SelectSeq(S, LAMBDA n : n.kind # "absent")
Absent == [path |-> NoPath, kind |-> "absent", bytes |-> EmptyText, fail |-> "none",
           gitignored |-> FALSE, unreadable |-> FALSE]

FilterTrees ==
    LET cs == {Absent, LinkNode(CPath, FALSE)} \cup {FileNode(CPath, VText, g) : g \in BOOLEAN}
        hs == {Absent, FileNode(HPath, VText, FALSE)}
        bs == {<<>>, <<FileNode(SubPaths[1], VText, FALSE)>>}
    IN  {[root |-> DirNode(RootPath, FALSE, FALSE),
          kids |-> Listing(<<c, DirNode(APath, FALSE, g), h>>), sub |-> b] :
            c \in cs, g \in BOOLEAN, h \in hs, b \in bs}
        \cup
        {[root |-> DirNode(RootPath, FALSE, FALSE),
          kids |-> Listing(<<c, a, h>>), sub |-> <<>>] :
            c \in cs, a \in {Absent, FileNode(APath, VText, FALSE)}, h \in hs}
        \cup
        {[root |-> FileNode(RootPath, VText, FALSE), kids |-> <<>>, sub |-> <<>>]}

\* The ceiling lies below the size of a directory and admits every file.
FilterOptions ==
    {[DefaultOptions EXCEPT !.ignore_patterns = g, !.respect_gitignore = r,
                            !.include_hidden = hd[1], !.max_depth = hd[2],
                            !.file_size_limit = 1] :
        g \in GlobLists, r \in BOOLEAN,
        hd \in {<<FALSE, NoDepth>>, <<TRUE, NoDepth>>, <<FALSE, 1>>}}

InitFilter ==
    /\ fs \in FilterTrees
    /\ opt \in FilterOptions
    /\ mode \in {"seq", "par", "stream"}
    /\ outcomes = <<>>
    /\ ParIdle
    /\ StreamIdle
    /\ ReadIdle
    /\ TreeIdle

SpecFilter == InitFilter /\ [][Next]_vars

AllPaths == {n.path : n \in AllNodes(fs)}

\* The entries produced so far: those of the eager results and those the
\* stream has yielded; the tree lines of the eager results.
EntryPaths ==
    UNION {{outcomes[k].files[i].path : i \in 1..Len(outcomes[k].files)}
           : k \in 1..Len(outcomes)}
    \cup {yielded[i].entry.path : i \in {j \in 1..Len(yielded) : yielded[j].ok}}
InSomeTree(p) ==
    \E k \in 1..Len(outcomes) : EntryLine(opt.root, p) \in Range(outcomes[k].tree)
Appears(p) == p \in EntryPaths \/ (p # opt.root /\ InSomeTree(p))

\* C4, as stated: a path that matches a pattern, or lies below a directory
\* that does, appears neither in a tree nor among the file entries.
C4_NoExcludedPath ==
    \A p \in AllPaths :
        (\E q \in AllPaths : IsPrefix(q, p) /\ Excluded(opt, q)) => ~Appears(p)

\* C4, amended: a path other than the root that matches a pattern, or lies
\* below a directory other than the root that does, appears neither in a
\* tree nor among the file entries, with respect_gitignore set or not; the
\* root is never matched against the patterns.
C4_NoExcludedPathBelowRoot ==
    \A p \in AllPaths :
        (\E q \in AllPaths \ {opt.root} : IsPrefix(q, p) /\ Excluded(opt, q)) => ~Appears(p)

C4_Witness ==
    /\ Len(outcomes) = 1 /\ outcomes[1].ok
    /\ ~opt.respect_gitignore
    /\ opt.ignore_patterns = <<LiteralGlob(<<114, 47, 97>>)>>
    /\ SubPaths[1] \in AllPaths
    /\ ~Appears(APath) /\ ~Appears(SubPaths[1])
    /\ Appears(CPath)

\* A path the Walker yields: neither it nor a directory above it (the root
\* aside) is ignored, hidden or excluded, and it lies within the depth.
Survives(p) ==
    /\ p \in AllPaths
    /\ opt.max_depth = NoDepth \/ Len(p) - Len(opt.root) <= opt.max_depth
    /\ \A q \in AllPaths \ {opt.root} :
          IsPrefix(q, p) =>
              LET n == NodeAt(fs, q) IN
              /\ ~(opt.respect_gitignore /\ n.gitignored)
              /\ ~(~opt.include_hidden /\ Hidden(n))
              /\ ~Excluded(opt, q)
              /\ q # p => ~n.unreadable

\* C8: every file entry, of an eager result or yielded by a stream, has the
\* path of a regular file that the Walker yielded; a directory or a dangling
\* symlink the Walker yielded has no entry, and below the root it has a line
\* in the tree of every eager result.
C8_EntriesAreWalkedRegularFiles ==
    /\ \A p \in EntryPaths : Survives(p) /\ NodeAt(fs, p).kind = "file"
    /\ \A k \in 1..Len(outcomes) :
          outcomes[k].ok =>
              \A p \in AllPaths \ {opt.root} :
                  (Survives(p) /\ NodeAt(fs, p).kind \in {"dir", "link"})
                      => EntryLine(opt.root, p) \in Range(outcomes[k].tree)

C8_Witness ==
    /\ Len(outcomes) = 1 /\ outcomes[1].ok
    /\ CPath \in AllPaths /\ APath \in AllPaths /\ SubPaths[1] \in AllPaths
    /\ NodeAt(fs, CPath).kind = "link"
    /\ InSomeTree(CPath) /\ InSomeTree(APath) /\ InSomeTree(SubPaths[1])
    /\ EntryPaths = {SubPaths[1]}

====
